---- MODULE Spec2Model ----
(***************************************************************************)
(* BERTTensorizer (pytext/data/bert_tensorizer.py): numberize turns a row  *)
(* of text columns into (tokens, segment_labels, seq_len); sort_key reads  *)
(* seq_len; tensorize pads a batch of such triples into three tensors.     *)
(*                                                                         *)
(* A text is represented by the sequence of sub-word strings the external  *)
(* tokenizer yields for it.  Sequences are 1-based here, so Python's       *)
(* row[2] is value[3] and segment label i of column i is i - 1.            *)
(***************************************************************************)
EXTENDS Integers, Sequences, FiniteSets, TLC

\* ------------------------------------------------------------------ bounds
MaxTokens == 2       \* longest text of a column, in sub-words (Spec)
MaxSeqLen == 4       \* largest configured max_seq_len
MaxBatch == 2        \* largest batch handed to tensorize (SpecPack)
MaxPackTokens == 1   \* most sub-words of a whole row in a batch (SpecPack)

\* ------------------------------------------------- vocabulary (external)
PAD == "__PAD__"
BOS == "__BEGIN_OF_SENTENCE__"
EOS == "__END_OF_SENTENCE__"
UNK == "__UNKNOWN__"

PadIdx == 0
BosIdx == 1
EosIdx == 2
UnkIdx == 3
HelloIdx == 5

\* vocab.idx with the lookup default: a string outside the vocabulary maps
\* to the index of UNK.
idx(tok) ==
    CASE tok = PAD -> PadIdx
      [] tok = BOS -> BosIdx
      [] tok = EOS -> EosIdx
      [] tok = UNK -> UnkIdx
      [] tok = "hello" -> HelloIdx
      [] OTHER -> UnkIdx

lookup_all(toks) == [i \in 1..Len(toks) |-> idx(toks[i])]

get_pad_index == idx(PAD)

\* ------------------------------------------------------------ the inputs
\* "hello" is in the vocabulary, "zz" is not; a text may also hold the PAD
\* symbol itself, which is what the rows of a batch are drawn with.
Words == {"hello", "zz"}
PackWords == {"hello", PAD}
ColumnNames == {"text1", "text2"}
ColumnLists == {<<"text1">>, <<"text1", "text2">>}

SeqsUpTo(S, n) == UNION {[1..k -> S] : k \in 0..n}

\* A row is a mapping from some of the column names to texts.
Rows == UNION {[D -> SeqsUpTo(Words, MaxTokens)] : D \in SUBSET ColumnNames}

\* The rows batches are made of: every column present, few sub-words in all.
PackRows ==
    {r \in [ColumnNames -> SeqsUpTo(PackWords, MaxPackTokens)] :
        Len(r["text1"]) + Len(r["text2"]) <= MaxPackTokens}

\* ------------------------------------------------------------- the state
VARIABLES
    columns,                \* self.columns
    add_bos_token,          \* self.add_bos_token
    add_eos_token,          \* self.add_eos_token
    use_eos_token_for_bos,  \* self.use_eos_token_for_bos
    max_seq_len,            \* self.max_seq_len
    markers_extra,          \* lookup_tokens adds its markers on top of max_seq_len
    row,                    \* the argument of the last numberize call
    result,                 \* what that call returned or raised
    key,                    \* what the last sort_key call returned
    batch,                  \* the argument of tensorize: numberized rows
    out                     \* what tensorize returned or raised

config == <<columns, add_bos_token, add_eos_token, use_eos_token_for_bos,
            max_seq_len, markers_extra>>
vars == <<columns, add_bos_token, add_eos_token, use_eos_token_for_bos,
          max_seq_len, markers_extra, row, result, key, batch, out>>

NoValue == <<>>
NoKey == <<>>

\* ----------------------------------------------------------- pure helpers
Min(a, b) == IF a <= b THEN a ELSE b

\* Python's s[:n] for n >= 0
Take(s, n) == SubSeq(s, 1, Min(n, Len(s)))

\* [v] * n
Repeat(v, n) == [i \in 1..n |-> v]

\* list(itertools.chain(*ss))
RECURSIVE chain(_)
chain(ss) == IF ss = <<>> THEN <<>> ELSE Head(ss) \o chain(Tail(ss))

RECURSIVE MaxOf(_)
MaxOf(ns) ==
    IF Len(ns) = 1 THEN ns[1]
    ELSE LET m == MaxOf(Tail(ns)) IN IF ns[1] >= m THEN ns[1] ELSE m

\* pytext.data.tensorizers.lookup_tokens, first component of its result:
\* cut the tokenized text, put the markers that are given around it, look
\* the strings up.  None is modelled by the empty string.  Whether the cut
\* leaves room for the markers within max_seq_len or the markers come on top
\* is not fixed by bert_tensorizer.py; markers_extra covers both.
lookup_tokens(text, bos_token, eos_token, max_len) ==
    LET nbos == IF bos_token = "" THEN 0 ELSE 1
        neos == IF eos_token = "" THEN 0 ELSE 1
        room == IF markers_extra THEN max_len ELSE max_len - nbos - neos
        tokenized == Take(text, IF room < 0 THEN 0 ELSE room)
        withbos == IF bos_token = "" THEN tokenized ELSE <<bos_token>> \o tokenized
        witheos == IF eos_token = "" THEN withbos ELSE Append(withbos, eos_token)
    IN  lookup_all(witheos)

\* pytext.data.utils.pad_and_tensorize: every row filled up to the longest
\* row with pad.
pad_and_tensorize(rows, pad) ==
    LET width == MaxOf([r \in 1..Len(rows) |-> Len(rows[r])])
    IN  [r \in 1..Len(rows) |-> rows[r] \o Repeat(pad, width - Len(rows[r]))]

\* ---------------------------------------------------------- BERTTensorizer
\* BERTTensorizer._lookup_tokens
_lookup_tokens(text) == lookup_tokens(text, "", EOS, max_seq_len)

\* line 94: one looked-up sentence per configured column, in column order
looked_of(r) == [i \in 1..Len(columns) |-> _lookup_tokens(r[columns[i]])]

\* lines 96-100
bos_token == IF use_eos_token_for_bos THEN EOS ELSE BOS

with_bos_each(sentences) ==
    IF add_bos_token
    THEN [i \in 1..Len(sentences) |-> <<idx(bos_token)>> \o sentences[i]]
    ELSE sentences

\* lines 95-101: the begin marker goes in front of the first sentence
with_bos(sentences) ==
    IF add_bos_token
    THEN [sentences EXCEPT ![1] = <<idx(bos_token)>> \o @]
    ELSE sentences

segment_labels_from_one(sentences) ==
    [i \in 1..Len(sentences) |-> Repeat(i, Len(sentences[i]))]

\* lines 102-103: [i] * len(sentence) for the i-th sentence, counted from 0
segment_labels_of(sentences) ==
    [i \in 1..Len(sentences) |-> Repeat(i - 1, Len(sentences[i]))]

numberize_present(r) ==
    LET present == SelectSeq(columns, LAMBDA c : c \in DOMAIN r)
        looked == [i \in 1..Len(present) |-> _lookup_tokens(r[present[i]])]
        tokens == chain(looked)
    IN  IF present = <<>>
        THEN [status |-> "KeyError", value |-> NoValue]
        ELSE [status |-> "ok",
              value |-> <<tokens, chain(segment_labels_of(looked)), Len(tokens)>>]

numberize_labels_first(r) ==
    IF \E i \in 1..Len(columns) : columns[i] \notin DOMAIN r
    THEN [status |-> "KeyError", value |-> NoValue]
    ELSE
    LET segment_labels == segment_labels_of(looked_of(r))
        tokens == chain(with_bos(looked_of(r)))
    IN  [status |-> "ok", value |-> <<tokens, chain(segment_labels), Len(tokens)>>]

\* BERTTensorizer.numberize; a column the row lacks raises KeyError in the
\* first statement, before anything is built.
numberize(r) ==
    IF \E i \in 1..Len(columns) : columns[i] \notin DOMAIN r
    THEN [status |-> "KeyError", value |-> NoValue]
    ELSE
    LET sentences == with_bos(looked_of(r))
        segment_labels == segment_labels_of(sentences)
        tokens == chain(sentences)
        seq_len == Len(tokens)
    IN  [status |-> "ok", value |-> <<tokens, chain(segment_labels), seq_len>>]

\* BERTTensorizer.sort_key
sort_key(r) == r[3]

pack_mask_last(b) ==
    LET tokens == pad_and_tensorize([r \in 1..Len(b) |-> b[r][1]], get_pad_index)
        pad_mask == [r \in 1..Len(tokens) |->
                        [c \in 1..Len(tokens[r]) |->
                            IF tokens[r][c] # get_pad_index THEN 1 ELSE 0]]
        segment_labels ==
            pad_and_tensorize([r \in 1..Len(b) |-> b[r][2]], get_pad_index)
    IN  [status |-> "ok", value |-> <<tokens, segment_labels, pad_mask>>]

\* lines 114-118 for a batch of one or more rows
pack(b) ==
    LET toks == [r \in 1..Len(b) |-> b[r][1]]
        segs == [r \in 1..Len(b) |-> b[r][2]]
        tokens == pad_and_tensorize(toks, get_pad_index)
        pad_mask == [r \in 1..Len(tokens) |->
                        [c \in 1..Len(tokens[r]) |->
                            IF tokens[r][c] # get_pad_index THEN 1 ELSE 0]]
        segment_labels == pad_and_tensorize(segs, get_pad_index)
    IN  [status |-> "ok", value |-> <<tokens, pad_mask, segment_labels>>]

tensorize_zero_rows(b) ==
    IF b = <<>>
    THEN [status |-> "ok", value |-> <<<<>>, <<>>, <<>>>>]
    ELSE pack(b)

\* BERTTensorizer.tensorize; zip(*batch) of no rows yields nothing, so the
\* unpacking into three names raises ValueError.
tensorize(b) ==
    IF b = <<>>
    THEN [status |-> "ValueError", value |-> NoValue]
    ELSE pack(b)

\* ----------------------------------------------------------------- Init
\* The tensorizer after from_config / __init__, nothing called yet.
Init ==
    /\ columns \in ColumnLists
    /\ add_bos_token \in BOOLEAN
    /\ add_eos_token \in BOOLEAN
    /\ use_eos_token_for_bos \in BOOLEAN
    /\ max_seq_len \in 1..MaxSeqLen
    /\ markers_extra \in BOOLEAN
    /\ row = <<>>
    /\ result = [status |-> "none", value |-> NoValue]
    /\ key = NoKey
    /\ batch = <<>>
    /\ out = [status |-> "none", value |-> NoValue]

\* A batcher's tensorizer: sentence pairs or single sentences at the largest
\* max_seq_len.
InitPack ==
    /\ Init
    /\ max_seq_len = MaxSeqLen

\* -------------------------------------------------------------- actions
\* numberize(row).  The method keeps nothing between calls (it only reads
\* the configuration), so one call per behaviour covers every call.
Numberize ==
    \E r \in Rows :
        /\ result.status = "none"
        /\ row' = r
        /\ result' = numberize(r)
        /\ key' = NoKey
        /\ UNCHANGED <<config, batch, out>>

\* sort_key(row) on the triple numberize returned
SortKey ==
    /\ result.status = "ok"
    /\ key = NoKey
    /\ key' = <<sort_key(result.value)>>
    /\ UNCHANGED <<config, row, result, batch, out>>

\* numberize(row) for the next row of a batch: the triple joins the batch
NumberizeIntoBatch ==
    \E r \in PackRows :
        /\ out.status = "none"
        /\ Len(batch) < MaxBatch
        /\ row' = r
        /\ result' = numberize(r)
        /\ result'.status = "ok"
        /\ batch' = Append(batch, result'.value)
        /\ UNCHANGED <<config, key, out>>

\* tensorize(batch)
Tensorize ==
    /\ out.status = "none"
    /\ out' = tensorize(batch)
    /\ UNCHANGED <<config, row, result, key, batch>>

Next == Numberize \/ SortKey
NextPack == NumberizeIntoBatch \/ Tensorize

Spec == Init /\ [][Next]_vars

\* The same tensorizer over a lookup_tokens that keeps its result, markers
\* included, within max_seq_len.
InitRoom == Init /\ ~markers_extra
SpecRoom == InitRoom /\ [][Next]_vars

SpecPack == InitPack /\ [][NextPack]_vars

\* ------------------------------------------------- what the claims speak of
Ok == result.status = "ok"
Called == result.status # "none"
Packed == out.status = "ok"
NCols == Len(columns)
ResTokens == result.value[1]
ResSegs == result.value[2]
ResLen == result.value[3]

\* the begin-marker index the configuration asks for
WantedBosIdx == IF use_eos_token_for_bos THEN EosIdx ELSE BosIdx
BosPrefix == IF add_bos_token THEN <<WantedBosIdx>> ELSE <<>>

\* the tokens that carry segment label l, in order
RECURSIVE Pick(_, _, _)
Pick(ts, ls, l) ==
    IF ts = <<>> \/ ls = <<>> THEN <<>>
    ELSE (IF Head(ls) = l THEN <<Head(ts)>> ELSE <<>>) \o Pick(Tail(ts), Tail(ls), l)

\* every way of cutting each configured column's text
Cuts == [1..NCols -> 0..MaxTokens]

\* the row's sequence with the markers the flags ask for and nothing cut:
\* <<tokens, segment labels>>
Untruncated ==
    LET blocks == [i \in 1..NCols |->
                      lookup_all(row[columns[i]])
                          \o (IF add_eos_token THEN <<EosIdx>> ELSE <<>>)]
        full == [blocks EXCEPT ![1] = BosPrefix \o @]
    IN  <<chain(full), chain([i \in 1..NCols |-> Repeat(i - 1, Len(full[i]))])>>

\* the number of tokens column i put into the sequence
Contributed(i) == Len(with_bos(looked_of(row))[i])

\* the batch's longest row
Width == MaxOf([r \in 1..Len(batch) |-> batch[r][3]])

\* ------------------------------------------------------------------ claims
\* C1: the triple numberize returns has seq_len <= max_seq_len, markers and
\* all columns counted.
C1_LengthWithinMax == Ok => ResLen <= max_seq_len

\* C2: add_eos_token governs the end marker: when it is true every column's
\* block ends with the end-marker index, when it is false the sequence is the
\* begin marker (if asked for) and the looked-up columns, no marker appended.
C2_EosGovernedByFlag ==
    Ok =>
        /\ add_eos_token =>
              \A i \in 1..NCols :
                  LET b == Pick(ResTokens, ResSegs, i - 1)
                  IN  b # <<>> /\ b[Len(b)] = EosIdx
        /\ ~add_eos_token =>
              \E n \in Cuts :
                  ResTokens = BosPrefix \o chain([i \in 1..NCols |->
                                  lookup_all(Take(row[columns[i]], n[i]))])

\* C3: when the sequence with all markers is longer than max_seq_len, the
\* tokens and segment labels returned are its first max_seq_len elements.
C3_TruncatesConcatenation ==
    Ok =>
        (Len(Untruncated[1]) > max_seq_len =>
            /\ ResTokens = Take(Untruncated[1], max_seq_len)
            /\ ResSegs = Take(Untruncated[2], max_seq_len))

\* C4: with add_bos_token the sequence starts with one begin marker (the
\* end-marker index under use_eos_token_for_bos) labelled 0; what follows,
\* or the whole sequence without add_bos_token, is the columns' looked-up
\* texts each closed by the end marker, no begin marker inserted anywhere.
C4_BosOnceGlobally ==
    Ok =>
        LET rest == IF add_bos_token THEN Tail(ResTokens) ELSE ResTokens
        IN  /\ add_bos_token =>
                  /\ ResTokens # <<>>
                  /\ ResTokens[1] = WantedBosIdx
                  /\ ResSegs[1] = 0
            /\ \E n \in Cuts :
                  rest = chain([i \in 1..NCols |->
                             Append(lookup_all(Take(row[columns[i]], n[i])), EosIdx)])

C4_Witness ==
    /\ Ok
    /\ add_bos_token
    /\ use_eos_token_for_bos
    /\ NCols = 2
    /\ row["text1"] # <<>>
    /\ row["text2"] # <<>>

\* C5: segment labels never decrease, column i's label i - 1 is carried by
\* exactly the tokens column i contributed, and when every column contributed
\* a token the labels take len(columns) distinct values.
C5_SegmentBlocks ==
    Ok =>
        /\ \A p \in 1..(Len(ResSegs) - 1) : ResSegs[p] <= ResSegs[p + 1]
        /\ \A p \in 1..Len(ResSegs) : ResSegs[p] \in 0..(NCols - 1)
        /\ \A i \in 1..NCols :
              Cardinality({p \in 1..Len(ResSegs) : ResSegs[p] = i - 1}) = Contributed(i)
        /\ (\A i \in 1..NCols : Contributed(i) > 0) =>
              Cardinality({ResSegs[p] : p \in 1..Len(ResSegs)}) = NCols

C5_Witness ==
    /\ Ok
    /\ NCols = 2
    /\ add_bos_token
    /\ Len(row["text1"]) = 2
    /\ Len(row["text2"]) = 1
    /\ max_seq_len = 1
    /\ Cardinality({ResSegs[p] : p \in 1..Len(ResSegs)}) = 2

\* C6: tokens and segment labels have the length seq_len, and sort_key of
\* the triple is seq_len.
C6_LengthsAgree ==
    Ok =>
        /\ Len(ResTokens) = ResLen
        /\ Len(ResSegs) = ResLen
        /\ key # NoKey => key = <<ResLen>>

C6_Witness ==
    /\ Ok
    /\ key # NoKey
    /\ add_bos_token
    /\ NCols = 2
    /\ ResLen >= 4

\* C7: the three tensors have one row per batch row and the batch's longest
\* length as width, and the mask of row r is 1 exactly below that row's
\* seq_len.
C7_MaskMarksLength ==
    Packed =>
        /\ \A k \in 1..3 :
              /\ Len(out.value[k]) = Len(batch)
              /\ \A r \in 1..Len(batch) : Len(out.value[k][r]) = Width
        /\ \A r \in 1..Len(batch) : \A c \in 1..Width :
              out.value[2][r][c] = (IF c <= batch[r][3] THEN 1 ELSE 0)

\* C8: tensorize keeps the rows in order, each row's tokens and segment
\* labels in front, and fills both up to the batch's longest length with the
\* PAD index.
C8_PadsWithPadIndex ==
    Packed =>
        /\ Len(out.value[1]) = Len(batch)
        /\ Len(out.value[3]) = Len(batch)
        /\ \A r \in 1..Len(batch) :
              /\ out.value[1][r] = batch[r][1] \o Repeat(PadIdx, Width - batch[r][3])
              /\ out.value[3][r] = batch[r][2] \o Repeat(PadIdx, Width - batch[r][3])

C8_Witness ==
    /\ Packed
    /\ Len(batch) = 2
    /\ batch[1][3] < batch[2][3]
    /\ \E p \in 1..Len(batch[1][2]) : batch[1][2][p] = 1

\* C9: a row lacking any configured column makes numberize raise KeyError
\* and return nothing, wherever the column stands in the list.
C9_MissingColumnFails ==
    (Called /\ \E i \in 1..NCols : columns[i] \notin DOMAIN row) =>
        result = [status |-> "KeyError", value |-> NoValue]

C9_Witness ==
    /\ result.status = "KeyError"
    /\ NCols = 2
    /\ DOMAIN row = {"text1"}

\* C10: tensorize of no rows raises and returns no tensors.
C10_EmptyBatchFails ==
    (out.status # "none" /\ batch = <<>>) =>
        out = [status |-> "ValueError", value |-> NoValue]

C10_Witness ==
    /\ out.status = "ValueError"
    /\ batch = <<>>

====
